---- MODULE Spec2Model ----
(***************************************************************************)
(* Epic FHIR Patient Portal (src/main.py): the OAuth2/PKCE session state   *)
(* machine and the FHIR resource handlers.                                 *)
(*                                                                         *)
(* Every handler is an asyncio coroutine.  A handler runs without          *)
(* interruption up to its single "await" (the outbound HTTP request) and   *)
(* again from the response to its return, so each handler is one action    *)
(* (when it returns before the await) or two: the part up to the await,    *)
(* which leaves a suspended task holding the coroutine's locals, and the   *)
(* part after it, named <handler>_resume.                                  *)
(***************************************************************************)
EXTENDS Integers, Sequences, FiniteSets, Bags, TLC

\* Bounds of the model.
MaxTokens == 2      \* state tokens /login issues in one run
MaxTasks == 2       \* handlers suspended on an outbound request at one time

\* Python's None: also the value dict.get returns for an absent key.
None == "None"

\* Python truthiness of an optional string: None and "" are false.
Falsy(x) == x \in {None, ""}

\* dict.get(key, default) and dict.get(key) on a JSON object or session dict.
GetOr(d, key, default) == IF key \in DOMAIN d THEN d[key] ELSE default
Get(d, key) == GetOr(d, key, None)

\* The empty dict {}.
EmptyDict == [k \in {} |-> None]

\* secrets.token_urlsafe(32): the i-th token issued.  A token is never issued
\* twice (the collision probability of 32 random bytes is negligible).
Token(i) == "state" \o ToString(i)
Tokens == {Token(i) : i \in 1..MaxTokens}

\* generate_code_verifier(): a fresh random verifier per login.
generate_code_verifier(i) == "verifier" \o ToString(i)

\* Inputs of the handlers.
Codes == {None, "code1"}
States == Tokens \cup {"", "bogus"}
Errors == {None, "access_denied"}
SessionIds == Tokens \cup {"bogus"}
\* (page, page_size) within Query(ge=1) and Query(ge=1, le=50), away from the
\* defaults (1, 10).
PageMin == 1
PageSizeMax == 50
Pagings == {<<PageMin + 1, PageSizeMax>>}
NoPaging == <<None, None>>

\* str(e) of an exception raised by the HTTP client; httpx timeouts carry an
\* empty message.
ExcMessages == {"", "All connection attempts failed"}

\* Answers of the token endpoint.
TokenStatuses == {200, 400, 500}
TokenJsons ==
    { [access_token |-> "tokA", patient |-> "patA", expires_in |-> "3600",
       scope |-> "patient/*.read"],
      [access_token |-> "tokB", patient |-> "patB", token_type |-> "bearer"],
      [patient |-> "patA"],
      [access_token |-> "", patient |-> "patA"],
      [access_token |-> "tokA"],
      [access_token |-> "tokA", patient |-> ""] }
TokenResponses ==
    { [raised |-> FALSE, status_code |-> s, json |-> EmptyDict] :
          s \in TokenStatuses \ {200} }
    \cup { [raised |-> FALSE, status_code |-> 200, json |-> j] : j \in TokenJsons }
    \cup { [raised |-> TRUE, msg |-> m] : m \in ExcMessages }

\* Answers of the FHIR server to the session flow: a Patient resource, or a
\* search Bundle without entries, by the resource asked for.
FhirStatuses == {200, 401, 404}
PatientJsons == { [id |-> "patA"] }
BundleJsons == { [total |-> 0], [total |-> 11], EmptyDict }
FhirJsons(op) == IF op = "get_patient" THEN PatientJsons ELSE BundleJsons
FhirResponses(op) ==
    { [raised |-> FALSE, status_code |-> s, json |-> EmptyDict] :
          s \in FhirStatuses \ {200} }
    \cup { [raised |-> FALSE, status_code |-> 200, json |-> j] : j \in FhirJsons(op) }
    \cup { [raised |-> TRUE, msg |-> m] : m \in ExcMessages }

\* Patient resources for the record builders: identifier lists, preferred
\* communication entries and demographics, on the resource {} and on one
\* that has an id.
MaxIdentifiers == 2     \* entries of a Patient's identifier array
Identifiers ==
    { [type |-> [coding |-> <<[code |-> "MR"]>>], system |-> "urn:oid:1.2.3",
       value |-> "MRN-1"],
      [type |-> [coding |-> <<[code |-> "SS"], [code |-> "MRN"]>>]],
      [system |-> "http://open.epic.com/FHIR/StructureDefinition/patient-fhir-id",
       value |-> "epic-1"],
      [system |-> "https://fhir.EPIC.com/ids", type |-> [coding |-> <<>>],
       value |-> "epic-2"],
      [system |-> "http://hl7.org/fhir/sid/us-ssn", value |-> "ssn-1"],
      [system |-> "urn:oid:9.9.9"] }
IdentifierLists ==
    UNION { [1..n -> Identifiers] : n \in 0..MaxIdentifiers }
Communications ==
    { <<>>,
      <<[preferred |-> TRUE]>>,
      <<[preferred |-> TRUE, language |-> [text |-> "Spanish"]]>>,
      <<[preferred |-> TRUE, language |-> [coding |-> <<>>]]>>,
      <<[preferred |-> TRUE, language |-> [text |-> "Spanish", coding |-> <<>>]]>>,
      <<[preferred |-> TRUE, language |-> [coding |-> <<[display |-> "French"]>>]]>>,
      <<[preferred |-> TRUE, language |-> [coding |-> <<[code |-> "fr"]>>]]>>,
      <<[preferred |-> FALSE, language |-> [coding |-> <<>>]]>>,
      <<[language |-> [coding |-> <<>>]],
        [preferred |-> TRUE, language |-> [text |-> "German"]]>> }
Demographics ==
    { [name |-> <<[given |-> <<"Ann", "B">>, family |-> "Lee"]>>, gender |-> "female",
       birthDate |-> "1980-01-01",
       address |-> <<[line |-> <<"1 Main St">>, city |-> "Madison", state |-> "WI",
                      postalCode |-> "53703", country |-> "US"]>>,
       telecom |-> <<[system |-> "email"], [system |-> "phone", value |-> "555-0100"]>>,
       maritalStatus |-> [text |-> "Married"]],
      [name |-> <<[family |-> "Lee"]>>, address |-> <<[city |-> "Madison"]>>,
       telecom |-> <<[system |-> "fax", value |-> "555-0199"]>>],
      [name |-> <<>>, address |-> <<>>, telecom |-> <<>>],
      [name |-> <<EmptyDict>>, address |-> <<EmptyDict>>, telecom |-> <<EmptyDict>>,
       maritalStatus |-> EmptyDict] }
PatientResources ==
    { base @@ fields :
        base \in {EmptyDict, [id |-> "patA"]},
        fields \in { [identifier |-> l] : l \in IdentifierLists }
                   \cup { [communication |-> c] : c \in Communications }
                   \cup Demographics \cup {EmptyDict} }

\* Pagings and Bundle totals for the pagination metadata: the least, the
\* default and the greatest page_size, against totals below, at and above
\* their multiples.
PageSizeMin == 1
PageSizeDefault == 10
MaxTotal == 21          \* the totals 0..MaxTotal, besides two around 2 * PageSizeMax
PagePagings ==
    { <<PageMin, PageSizeMin>>, <<PageMin, PageSizeDefault>>,
      <<PageMin + 1, PageSizeMax>> }
Totals == (0..MaxTotal) \cup {2 * PageSizeMax, 2 * PageSizeMax + 1}
TotalBundles == { [total |-> t] : t \in Totals } \cup {EmptyDict}

\* Vital-signs Observations: component arrays of blood-pressure readings, a
\* score of 0, a component without value and one without unit; and single
\* valued, empty and partial resources.
MaxComponents == 2      \* entries of an Observation's component array
Components ==
    { [code |-> [text |-> "Systolic"], valueQuantity |-> [value |-> 120, unit |-> "mmHg"]],
      [code |-> [text |-> "Diastolic"], valueQuantity |-> [value |-> 80, unit |-> "mmHg"]],
      [code |-> [coding |-> <<[display |-> "Pain severity"]>>],
       valueQuantity |-> [value |-> 0, unit |-> "{score}"]],
      [code |-> [text |-> "Cuff size"]],
      [valueQuantity |-> [value |-> 98]] }
ComponentLists ==
    UNION { [1..n -> Components] : n \in 1..MaxComponents }
VitalResources ==
    { [component |-> l] : l \in ComponentLists }
    \cup { [id |-> "v1", valueQuantity |-> EmptyDict, component |-> l] :
              l \in [1..1 -> Components] }
    \cup { EmptyDict,
           [component |-> <<>>],
           [id |-> "v2", status |-> "final", effectiveDateTime |-> "2024-05-01",
            code |-> [coding |-> <<[system |-> "urn:local", code |-> "HR"],
                                   [system |-> "http://loinc.org", code |-> "8867-4",
                                    display |-> "Heart rate"]>>],
            valueQuantity |-> [value |-> 72, unit |-> "/min"],
            component |-> <<[valueQuantity |-> [value |-> 120, unit |-> "mmHg"]]>>,
            interpretation |-> <<[coding |-> <<[display |-> "High"]>>]>>,
            performer |-> <<[display |-> "Dr. Who"]>>,
            bodySite |-> [text |-> "Left arm"], method |-> [text |-> "Auscultation"],
            category |-> <<[coding |-> <<[code |-> "vital-signs"],
                                         [display |-> "Vital Signs"]>>]>>],
           [code |-> [text |-> "Weight", coding |-> <<>>], valueQuantity |-> [value |-> 0],
            interpretation |-> <<>>, performer |-> <<>>, category |-> <<EmptyDict>>] }

\* Laboratory Observations: every combination of a low of none, 0 or 4, a
\* high of none, 0, 5 or 11 and a text of none, "" or a range, in the first
\* referenceRange entry; and one resource for each type of value.
RangeLows == { EmptyDict, [low |-> [value |-> 0]], [low |-> [value |-> 4]],
               [low |-> EmptyDict] }
RangeHighs == { EmptyDict, [high |-> [value |-> 0]], [high |-> [value |-> 5]],
                [high |-> [value |-> 11, unit |-> "K/uL"]] }
RangeTexts == { EmptyDict, [text |-> ""], [text |-> "4.0-11.0 K/uL"] }
ReferenceRanges ==
    { low @@ high @@ text : low \in RangeLows, high \in RangeHighs, text \in RangeTexts }
LabResources ==
    { [referenceRange |-> <<r>>] : r \in ReferenceRanges }
    \cup { EmptyDict,
           [referenceRange |-> <<>>],
           [id |-> "l1", status |-> "final", code |-> [coding |-> <<[code |-> "WBC",
                                                                     display |-> "Leukocytes"]>>],
            valueQuantity |-> [value |-> 7, unit |-> "K/uL"],
            referenceRange |-> <<[low |-> [value |-> 4], high |-> [value |-> 11]],
                                 [text |-> "other"]>>,
            interpretation |-> <<[coding |-> <<[code |-> "N"]>>]>>,
            specimen |-> [display |-> "Blood"],
            note |-> <<[text |-> "fasting"], EmptyDict>>],
           [code |-> [text |-> "Culture"], valueString |-> "No growth",
            interpretation |-> <<[text |-> "Negative"]>>],
           [valueCodeableConcept |-> [coding |-> <<>>]],
           [valueBoolean |-> FALSE, valueString |-> ""] }

\* MedicationRequests: the resource {}, a full one and partial ones.
MedicationResources ==
    { EmptyDict,
      [id |-> "m1", status |-> "active", intent |-> "order",
       medicationCodeableConcept |-> [coding |-> <<[display |-> "Lisinopril 10 mg"]>>],
       dosageInstruction |->
           <<[text |-> "1 tablet daily",
              timing |-> [repeat |-> [frequency |-> 1, period |-> 1, periodUnit |-> "d"]],
              route |-> [text |-> "oral"],
              doseAndRate |-> <<[doseQuantity |-> [value |-> 1, unit |-> "tablet"]],
                                EmptyDict>>],
             [timing |-> [code |-> [text |-> "QD"]]]>>,
       requester |-> [display |-> "Dr. Who"],
       reasonCode |-> <<[text |-> "Hypertension"], EmptyDict, [text |-> "CKD"]>>,
       dispenseRequest |-> [numberOfRepeatsAllowed |-> 3,
                            quantity |-> [value |-> 30, unit |-> "tablet"],
                            expectedSupplyDuration |-> [value |-> 30]]],
      [medicationReference |-> [display |-> "Metformin"], dosageInstruction |-> <<>>,
       dispenseRequest |-> [numberOfRepeatsAllowed |-> 0], reasonCode |-> <<>>],
      [medicationCodeableConcept |-> [coding |-> <<>>], medicationReference |-> EmptyDict,
       dosageInstruction |-> <<EmptyDict>>, category |-> <<>>] }

\* The search Bundles that carry them: one entry each, an entry without
\* resource, and no entry at all.
Resources(op) ==
    IF op = "get_medications" THEN MedicationResources
    ELSE IF op = "get_labs" THEN LabResources
    ELSE IF op = "get_vitals" THEN VitalResources
    ELSE {}
RecordBundles(op) ==
    { [total |-> 1, entry |-> <<[resource |-> r]>>] : r \in Resources(op) }
    \cup { [entry |-> <<EmptyDict>>], [total |-> 0, entry |-> <<>>] }

VARIABLES
    sessions,     \* the module-level dict: state token -> session dict
    issued,       \* number of tokens /login has generated
    tasks,        \* bag of suspended coroutines: each one's locals at its await,
                  \* which is also the outbound request in flight
    last,         \* the handler call that returned last, with its outcome
    exchanged     \* history: (code, state) pairs whose callback has succeeded

vars == <<sessions, issued, tasks, last, exchanged>>

\* sessions[key] = record
Store(s, key, record) ==
    [k \in (DOMAIN s) \cup {key} |-> IF k = key THEN record ELSE s[k]]
\* del sessions[key]
Delete(s, key) == [k \in (DOMAIN s) \ {key} |-> s[k]]

\* The status of a token's entry, "absent" when it has none.
StatusOf(s, t) == IF t \in DOMAIN s THEN Get(s[t], "status") ELSE "absent"

\* A coroutine reaches its await / is resumed by the response.
Suspend(task) == tasks' = tasks (+) SetToBag({task})
Resume(task) == tasks' = tasks (-) SetToBag({task})
Suspended == BagToSet(tasks)

Init ==
    /\ sessions = EmptyDict
    /\ issued = 0
    /\ tasks = EmptyBag
    /\ last = [op |-> "none"]
    /\ exchanged = {}

\* GET /login
login ==
    /\ issued < MaxTokens
    /\ LET state == Token(issued + 1)
           code_verifier == generate_code_verifier(issued + 1)
       IN /\ sessions' = Store(sessions, state,
                               [status |-> "pending", code_verifier |-> code_verifier])
          /\ last' = [op |-> "login", kind |-> "redirect_authorize", state |-> state]
    /\ issued' = issued + 1
    /\ UNCHANGED <<tasks, exchanged>>

\* What a /callback call returns: a redirect to "/?error=<kind>" (with
\* details) or, for kind "dashboard", to "/dashboard?session=<state>".
\* replay: the call repeats a (code, state) pair of a call that succeeded;
\* sent: the token exchange requests the call has issued.
CallbackReturn(call, sent, kind, details) ==
    [op |-> "callback", code |-> call.code, state |-> call.state,
     error |-> call.error, replay |-> call.replay, sent |-> sent,
     kind |-> kind, details |-> details]

\* Mutant: the session is looked up with sessions.get(state, {}), without the
\* "state not in sessions" check.
callback_checks_no_state_check(code, state, error) ==
    IF ~Falsy(error) THEN "provider_error"
    ELSE IF Falsy(code) \/ Falsy(state) THEN "missing_params"
    ELSE IF Falsy(Get(IF state \in DOMAIN sessions THEN sessions[state] ELSE EmptyDict,
                      "code_verifier"))
    THEN "missing_verifier"
    ELSE "exchange"

\* The checks /callback makes before the token exchange, in the order of the
\* code: the "/?error=" redirect the first failing one returns, or "exchange".
callback_checks(code, state, error) ==
    IF ~Falsy(error) THEN "provider_error"
    ELSE IF Falsy(code) \/ Falsy(state) THEN "missing_params"
    ELSE IF state \notin DOMAIN sessions THEN "invalid_state"
    ELSE IF Falsy(Get(sessions[state], "code_verifier")) THEN "missing_verifier"
    ELSE "exchange"

\* GET /callback, up to the await of the token exchange.
callback(code, state, error) ==
    LET call == [code |-> code, state |-> state, error |-> error,
                 replay |-> <<code, state>> \in exchanged]
        kind == callback_checks(code, state, error)
    IN IF kind # "exchange"
       THEN /\ last' = CallbackReturn(call, 0, kind,
                                      IF kind = "provider_error" THEN error ELSE None)
            /\ UNCHANGED <<sessions, issued, tasks, exchanged>>
       ELSE LET code_verifier == Get(sessions[state], "code_verifier")
            IN /\ BagCardinality(tasks) < MaxTasks
               /\ Suspend([op |-> "callback", call |-> call,
                           code_verifier |-> code_verifier])
               /\ UNCHANGED <<sessions, issued, last, exchanged>>

\* Mutant: a failed exchange discards the session.
callback_token_error_deletes(task, token_response) ==
    /\ last' = CallbackReturn(task.call, 1, "token_error", token_response.status_code)
    /\ sessions' = IF task.call.state \in DOMAIN sessions
                   THEN Delete(sessions, task.call.state)
                   ELSE sessions
    /\ UNCHANGED exchanged

\* The token endpoint answered with a status other than 200.
callback_token_error(task, token_response) ==
    /\ last' = CallbackReturn(task.call, 1, "token_error", token_response.status_code)
    /\ UNCHANGED <<sessions, exchanged>>

\* Mutant: only the patient is checked.
IncompleteTokenResponse_patient_only(patient_id, access_token) ==
    Falsy(patient_id)

\* Mutant: only the access token is checked.
IncompleteTokenResponse_token_only(patient_id, access_token) ==
    Falsy(access_token)

\* The token response lacks the patient or the access token.
IncompleteTokenResponse(patient_id, access_token) ==
    Falsy(patient_id) \/ Falsy(access_token)

callback_missing_token_data(task) ==
    /\ last' = CallbackReturn(task.call, 1, "missing_token_data", None)
    /\ UNCHANGED <<sessions, exchanged>>

\* The session dict written on a successful exchange.
AuthenticatedSession(token_json, access_token, patient_id) ==
    [status |-> "authenticated",
     access_token |-> access_token,
     patient_id |-> patient_id,
     token_type |-> GetOr(token_json, "token_type", "Bearer"),
     expires_in |-> Get(token_json, "expires_in"),
     scope |-> Get(token_json, "scope")]

\* Mutant: the session dict is updated in place (dict.update), so it keeps its
\* code_verifier.
callback_authenticate_update(task, token_json, access_token, patient_id) ==
    LET state == task.call.state
        new == AuthenticatedSession(token_json, access_token, patient_id)
        keys == DOMAIN new \cup {"code_verifier"}
    IN /\ sessions' = Store(sessions, state,
                 [k \in keys |-> IF k \in DOMAIN new THEN new[k]
                                              ELSE task.code_verifier])
       /\ exchanged' = exchanged \cup {<<task.call.code, state>>}
       /\ last' = CallbackReturn(task.call, 1, "dashboard", state)

callback_authenticate(task, token_json, access_token, patient_id) ==
    LET state == task.call.state
    IN /\ sessions' = Store(sessions, state,
                 AuthenticatedSession(token_json, access_token, patient_id))
       /\ exchanged' = exchanged \cup {<<task.call.code, state>>}
       /\ last' = CallbackReturn(task.call, 1, "dashboard", state)

\* An exception raised inside the try block.
callback_exception(task, msg) ==
    /\ last' = CallbackReturn(task.call, 1, "exception", msg)
    /\ UNCHANGED <<sessions, exchanged>>

\* GET /callback, from the token endpoint's answer to the return.
callback_resume(task, token_response) ==
    /\ task \in Suspended
    /\ task.op = "callback"
    /\ Resume(task)
    /\ UNCHANGED issued
    /\ IF token_response.raised
       THEN callback_exception(task, token_response.msg)
       ELSE IF token_response.status_code # 200
       THEN callback_token_error(task, token_response)
       ELSE LET token_json == token_response.json
                patient_id == Get(token_json, "patient")
                access_token == Get(token_json, "access_token")
            IN IF IncompleteTokenResponse(patient_id, access_token)
               THEN callback_missing_token_data(task)
               ELSE callback_authenticate(task, token_json, access_token, patient_id)

\* Mutant: logout empties the store (sessions.clear()).
logout_clears_store(session_id) ==
    /\ sessions' = IF session_id \in DOMAIN sessions THEN EmptyDict ELSE sessions
    /\ last' = [op |-> "logout", session_id |-> session_id,
                kind |-> "Logged out successfully"]
    /\ UNCHANGED <<issued, tasks, exchanged>>

\* GET /api/logout/{session_id}
logout(session_id) ==
    /\ sessions' = IF session_id \in DOMAIN sessions
                   THEN Delete(sessions, session_id)
                   ELSE sessions
    /\ last' = [op |-> "logout", session_id |-> session_id,
                kind |-> "Logged out successfully"]
    /\ UNCHANGED <<issued, tasks, exchanged>>

\* Mutant: the handler only checks that the session exists.
NotAuthenticated_presence_only(session_id) ==
    \/ session_id \notin DOMAIN sessions
    \/ sessions[session_id] = EmptyDict

\* The session check every resource handler starts with:
\* "not session or session.get('status') != 'authenticated'".
NotAuthenticated(session_id) ==
    \/ session_id \notin DOMAIN sessions
    \/ sessions[session_id] = EmptyDict
    \/ Get(sessions[session_id], "status") # "authenticated"

\* Mutant: the scheme is always "Bearer", whatever token_type was stored.
get_auth_headers_bearer(session_data) ==
    [Authorization |-> <<"Bearer", Get(session_data, "access_token")>>,
     Accept |-> "application/fhir+json"]

\* get_auth_headers(session_data): Authorization is "<token_type> <access_token>".
get_auth_headers(session_data) ==
    [Authorization |-> <<GetOr(session_data, "token_type", "Bearer"),
                         Get(session_data, "access_token")>>,
     Accept |-> "application/fhir+json"]

\* What a resource handler call ends with: kind "return" with the returned
\* dict, or kind "HTTPException" with its status_code and detail.
\* status: the status of the session the handler looked up ("absent" for
\* none); sent: the FHIR requests the call has issued; response: the answer
\* to the request, if one was issued.
NoResponse == EmptyDict
FetchOutcome(op, session_id, status, paging, sent, response, kind, result) ==
    [op |-> op, session_id |-> session_id, status |-> status, page |-> paging[1],
     page_size |-> paging[2], sent |-> sent, response |-> response,
     kind |-> kind, result |-> result]

\* The outcome of a handler resumed by the FHIR server's answer.
Resumed(task, response, kind, result) ==
    FetchOutcome(task.op, task.session_id, Get(task.session, "status"),
                 task.paging, 1, response, kind, result)

HTTPException(status_code, detail) == [status_code |-> status_code, detail |-> detail]

\* raise HTTPException(status_code=401, detail="Invalid or expired session")
raise_unauthenticated(op, session_id, paging) ==
    /\ last' = FetchOutcome(op, session_id, StatusOf(sessions, session_id), paging,
                            0, NoResponse, "HTTPException",
                            HTTPException(401, "Invalid or expired session"))
    /\ UNCHANGED <<sessions, issued, tasks, exchanged>>

\* GET /api/patient/{session_id}, up to the await of the FHIR request.
get_patient(session_id) ==
    IF NotAuthenticated(session_id)
    THEN raise_unauthenticated("get_patient", session_id, NoPaging)
    ELSE LET session == sessions[session_id]
             patient_id == Get(session, "patient_id")
             headers == get_auth_headers(session)
         IN /\ BagCardinality(tasks) < MaxTasks
            /\ Suspend([op |-> "get_patient", session_id |-> session_id,
                        session |-> session, paging |-> NoPaging,
                        url |-> <<"Patient", patient_id>>,
                        params |-> EmptyDict, headers |-> headers])
            /\ UNCHANGED <<sessions, issued, last, exchanged>>

\* str.title() on the codes the resources of the model carry.
Title(x) ==
    CASE x = "male" -> "Male"
      [] x = "female" -> "Female"
      [] x = "unknown" -> "Unknown"
      [] x = "final" -> "Final"
      [] x = "active" -> "Active"
      [] x = "order" -> "Order"
      [] x = "" -> ""
      [] OTHER -> x

\* Python truthiness of a list or dict that defaults to an empty one.
Empty(x) == x = <<>>

\* sep.join(parts)
RECURSIVE Join(_, _)
Join(sep, parts) ==
    IF parts = <<>> THEN ""
    ELSE IF Len(parts) = 1 THEN parts[1]
    ELSE parts[1] \o sep \o Join(sep, Tail(parts))

\* [p for p in parts if p]
RECURSIVE NonEmpty(_)
NonEmpty(parts) ==
    IF parts = <<>> THEN <<>>
    ELSE IF parts[1] = "" THEN NonEmpty(Tail(parts))
    ELSE <<parts[1]>> \o NonEmpty(Tail(parts))

\* The least index of a sequence that satisfies a test, 0 when none does:
\* the element a "for ... if ...: return" loop stops at.
First(indices) ==
    IF indices = {} THEN 0 ELSE CHOOSE i \in indices : \A j \in indices : i <= j

\* What a helper that can raise ends with: its value, or the exception.
Returns(value) == [raised |-> FALSE, value |-> value]
Raises(msg) == [raised |-> TRUE, msg |-> msg]
IndexError == Raises("list index out of range")

\* "epic" in system.lower(), on the identifier systems of the model.
ContainsEpic(system) ==
    system \in {"http://open.epic.com/FHIR/StructureDefinition/patient-fhir-id",
                "https://fhir.EPIC.com/ids"}

\* An identifier whose type.coding carries the code MR or MRN.
IsMR(ident) ==
    LET coding == GetOr(GetOr(ident, "type", EmptyDict), "coding", <<>>)
    IN \E c \in 1..Len(coding) : Get(coding[c], "code") \in {"MR", "MRN"}

\* get_identifier(patient_data): one loop over the identifiers, which returns
\* at the first one that is MR/MRN or Epic.
get_identifier(patient_data) ==
    LET identifiers == GetOr(patient_data, "identifier", <<>>)
        hit == First({i \in 1..Len(identifiers) :
                         \/ IsMR(identifiers[i])
                         \/ ContainsEpic(GetOr(identifiers[i], "system", ""))})
    IN IF hit # 0 THEN GetOr(identifiers[hit], "value", "N/A")
       ELSE IF ~Empty(identifiers)
       THEN GetOr(identifiers[1], "value", GetOr(patient_data, "id", "N/A"))
       ELSE GetOr(patient_data, "id", "N/A")

\* format_address(addresses)
format_address(addresses) ==
    IF Empty(addresses) THEN "No address on file"
    ELSE LET addr == addresses[1]
             lines == GetOr(addr, "line", <<>>)
             city_state_zip == NonEmpty(<<GetOr(addr, "city", ""), GetOr(addr, "state", ""),
                                          GetOr(addr, "postalCode", "")>>)
             country == GetOr(addr, "country", "")
             address_parts ==
                 lines
                 \o (IF Empty(city_state_zip) THEN <<>> ELSE <<Join(", ", city_state_zip)>>)
                 \o (IF country = "" THEN <<>> ELSE <<country>>)
             joined == Join(", ", NonEmpty(address_parts))
         IN IF joined = "" THEN "No address on file" ELSE joined

\* format_telecom(telecoms, system)
format_telecom(telecoms, system) ==
    LET hit == First({i \in 1..Len(telecoms) : Get(telecoms[i], "system") = system})
    IN IF hit = 0 THEN "N/A" ELSE GetOr(telecoms[hit], "value", "N/A")

\* get_preferred_language(patient_data).  The default of lang.get("text", ...)
\* is evaluated before the lookup, text present or not: it indexes
\* lang.get("coding", [{}]) at 0, which raises IndexError on an empty array.
get_preferred_language(patient_data) ==
    LET communication == GetOr(patient_data, "communication", <<>>)
        hit == First({i \in 1..Len(communication) :
                         GetOr(communication[i], "preferred", FALSE)})
    IN IF hit = 0 THEN Returns("English")
       ELSE LET lang == GetOr(communication[hit], "language", EmptyDict)
                coding == GetOr(lang, "coding", <<EmptyDict>>)
            IN IF Empty(coding) THEN IndexError
               ELSE Returns(GetOr(lang, "text", GetOr(coding[1], "display", "English")))

\* f"{given} {family}".strip(), for name parts without outer blanks.
FullName(given, family) ==
    IF given = "" THEN family
    ELSE IF family = "" THEN given
    ELSE given \o " " \o family

\* The name get_patient builds from the first entry of patient_data["name"].
PatientName(patient_data) ==
    LET names == GetOr(patient_data, "name", <<>>)
    IN IF Empty(names) THEN "Unknown"
       ELSE FullName(Join(" ", GetOr(names[1], "given", <<>>)),
                     GetOr(names[1], "family", ""))

\* The dict get_patient returns, given the preferred language.
PatientRecord(patient_data, language) ==
    [id |-> Get(patient_data, "id"),
     name |-> PatientName(patient_data),
     gender |-> Title(GetOr(patient_data, "gender", "Unknown")),
     birthDate |-> GetOr(patient_data, "birthDate", "Unknown"),
     identifier |-> get_identifier(patient_data),
     address |-> format_address(GetOr(patient_data, "address", <<>>)),
     phone |-> format_telecom(GetOr(patient_data, "telecom", <<>>), "phone"),
     email |-> format_telecom(GetOr(patient_data, "telecom", <<>>), "email"),
     maritalStatus |-> GetOr(GetOr(patient_data, "maritalStatus", EmptyDict),
                             "text", "Unknown"),
     language |-> language]

\* The "Parse patient data" block of get_patient: the record, or the exception
\* a helper raised while building it.
ParsePatient(patient_data) ==
    LET language == get_preferred_language(patient_data)
    IN IF language.raised THEN language
       ELSE Returns(PatientRecord(patient_data, language.value))

\* Mutant: a 401 from the FHIR server logs the session out.
get_patient_401_deletes(task, response) ==
    /\ last' = Resumed(task, response, "HTTPException",
                       HTTPException(401, "Access token expired or invalid"))
    /\ sessions' = IF task.session_id \in DOMAIN sessions
                   THEN Delete(sessions, task.session_id)
                   ELSE sessions
    /\ UNCHANGED exchanged

\* The FHIR server answered 401 to the Patient request.
get_patient_401(task, response) ==
    /\ last' = Resumed(task, response, "HTTPException",
                       HTTPException(401, "Access token expired or invalid"))
    /\ UNCHANGED <<sessions, exchanged>>

\* The FHIR server answered another status than 200 and 401.
get_patient_not_200(task, response) ==
    /\ last' = Resumed(task, response, "HTTPException",
                       HTTPException(response.status_code,
                                     "Failed to fetch patient data"))
    /\ UNCHANGED <<sessions, exchanged>>

\* "except Exception as e": any other exception becomes a 500.
get_patient_exception(task, response, msg) ==
    /\ last' = Resumed(task, response, "HTTPException",
                       HTTPException(500, <<"Error fetching patient", msg>>))
    /\ UNCHANGED <<sessions, exchanged>>

\* GET /api/patient/{session_id}, from the FHIR server's answer to the return.
get_patient_resume(task, response) ==
    /\ task \in Suspended
    /\ task.op = "get_patient"
    /\ Resume(task)
    /\ UNCHANGED issued
    /\ IF response.raised
       THEN get_patient_exception(task, response, response.msg)
       ELSE IF response.status_code = 401
       THEN get_patient_401(task, response)
       ELSE IF response.status_code # 200
       THEN get_patient_not_200(task, response)
       ELSE LET parsed == ParsePatient(response.json)
            IN IF parsed.raised
               THEN get_patient_exception(task, response, parsed.msg)
               ELSE /\ last' = Resumed(task, response, "return", parsed.value)
                    /\ UNCHANGED <<sessions, exchanged>>

\* The three list handlers differ in the resource they ask for and in the key
\* of the record list they return.
ListOps == {"get_medications", "get_labs", "get_vitals"}
ResourceOps == {"get_patient"} \cup ListOps
ListKey(op) ==
    CASE op = "get_medications" -> "medications"
      [] op = "get_labs" -> "labs"
      [] op = "get_vitals" -> "vitals"
ListUrl(op) == IF op = "get_medications" THEN "MedicationRequest" ELSE "Observation"
ListParams(op, patient_id, page, page_size) ==
    LET offset == (page - 1) * page_size IN
    CASE op = "get_medications" ->
           [patient |-> patient_id, _count |-> page_size, _offset |-> offset,
            _sort |-> "-authoredon"]
      [] op = "get_labs" ->
           [patient |-> patient_id, category |-> "laboratory", _count |-> page_size,
            _offset |-> offset, _sort |-> "-date"]
      [] op = "get_vitals" ->
           [patient |-> patient_id, category |-> "vital-signs", _count |-> page_size,
            _offset |-> offset, _sort |-> "-date"]

\* A list handler up to the await of the FHIR request.
list_handler(op, session_id, page, page_size) ==
    IF NotAuthenticated(session_id)
    THEN raise_unauthenticated(op, session_id, <<page, page_size>>)
    ELSE LET session == sessions[session_id]
             patient_id == Get(session, "patient_id")
             headers == get_auth_headers(session)
         IN /\ BagCardinality(tasks) < MaxTasks
            /\ Suspend([op |-> op, session_id |-> session_id,
                        session |-> session, paging |-> <<page, page_size>>,
                        url |-> <<ListUrl(op)>>,
                        params |-> ListParams(op, patient_id, page, page_size),
                        headers |-> headers])
            /\ UNCHANGED <<sessions, issued, last, exchanged>>

\* GET /api/medications/{session_id}
get_medications(session_id, page, page_size) ==
    list_handler("get_medications", session_id, page, page_size)
\* GET /api/labs/{session_id}
get_labs(session_id, page, page_size) ==
    list_handler("get_labs", session_id, page, page_size)
\* GET /api/vitals/{session_id}
get_vitals(session_id, page, page_size) ==
    list_handler("get_vitals", session_id, page, page_size)

\* A dict whose first key is the handler's own: "medications", "labs" or "vitals".
Dict(key, records, rest) ==
    [k \in {key} \cup DOMAIN rest |-> IF k = key THEN records ELSE rest[k]]

\* The dict a list handler returns in place of a failure.
ListFailure(op, page, page_size, error) ==
    Dict(ListKey(op), <<>>,
         [total |-> 0, page |-> page, page_size |-> page_size, error |-> error])

\* The FHIR server answered 401 to a list request.
list_401(task, response) ==
    /\ last' = Resumed(task, response, "return",
                       ListFailure(task.op, task.paging[1], task.paging[2], "Session expired"))
    /\ UNCHANGED <<sessions, exchanged>>

\* The FHIR server answered another status than 200 and 401.
list_not_200(task, response) ==
    /\ last' = Resumed(task, response, "return",
                       ListFailure(task.op, task.paging[1], task.paging[2],
                           "Failed to fetch: " \o ToString(response.status_code)))
    /\ UNCHANGED <<sessions, exchanged>>

\* "except Exception as e": the error field is str(e).
list_exception(task, response) ==
    /\ last' = Resumed(task, response, "return",
                       ListFailure(task.op, task.paging[1], task.paging[2], response.msg))
    /\ UNCHANGED <<sessions, exchanged>>

\* Mutant: the page count is rounded down and one page added.
total_pages_floor_plus_one(total, page_size) ==
    IF total # 0 THEN total \div page_size + 1 ELSE 1

\* (total + page_size - 1) // page_size if total else 1
total_pages(total, page_size) ==
    IF total # 0 THEN (total + page_size - 1) \div page_size ELSE 1

\* [f(x) for x in seq]: the texts of the entries that have one.
RECURSIVE Texts(_)
Texts(seq) ==
    IF seq = <<>> THEN <<>>
    ELSE IF Falsy(Get(seq[1], "text")) THEN Texts(Tail(seq))
    ELSE <<seq[1].text>> \o Texts(Tail(seq))

\* Truthiness of d.get("value", ""), a JSON number when present: 0 is false.
HasTruthyValue(d) == "value" \in DOMAIN d /\ d.value # 0
\* str() of d.get(key, "") for a JSON number.
StrOf(d, key) == IF key \in DOMAIN d THEN ToString(d[key]) ELSE ""

\* get_category_text(categories)
RECURSIVE CategoryTexts(_)
CategoryTexts(categories) ==
    IF categories = <<>> THEN <<>>
    ELSE LET cat == categories[1]
             coding == GetOr(cat, "coding", <<>>)
             hit == First({c \in 1..Len(coding) : ~Falsy(Get(coding[c], "display"))})
             text == IF ~Falsy(Get(cat, "text")) THEN <<cat.text>>
                     ELSE IF hit # 0 THEN <<coding[hit].display>>
                     ELSE <<>>
         IN text \o CategoryTexts(Tail(categories))
get_category_text(categories) == Join(", ", CategoryTexts(categories))

\* interp.get("text", ""), else the display of its first coding.
Interpretation(resource, default, coded_default) ==
    LET interps == GetOr(resource, "interpretation", <<>>)
    IN IF Empty(interps) THEN default
       ELSE LET text == GetOr(interps[1], "text", "")
                coding == GetOr(interps[1], "coding", <<>>)
            IN IF text = "" /\ ~Empty(coding)
               THEN GetOr(coding[1], "display", coded_default)
               ELSE text

\* resource["performer"][0].get("display", "")
Performer(resource) ==
    LET performers == GetOr(resource, "performer", <<>>)
    IN IF Empty(performers) THEN "" ELSE GetOr(performers[1], "display", "")

\* The loop of get_vitals over code.coding: <<vital_name, vital_code, loinc_code>>.
RECURSIVE VitalCoding(_, _)
VitalCoding(coding, acc) ==
    IF coding = <<>> THEN acc
    ELSE LET c == coding[1]
             loinc == Get(c, "system") = "http://loinc.org"
             name == IF loinc /\ acc[1] \in {"", "Unknown Vital"}
                     THEN GetOr(c, "display", acc[1]) ELSE acc[1]
         IN VitalCoding(Tail(coding),
                        <<name, GetOr(c, "code", acc[2]),
                          IF loinc THEN GetOr(c, "code", "") ELSE acc[3]>>)

\* The entry get_vitals appends to components for one component.
Component(comp) ==
    LET code == GetOr(comp, "code", EmptyDict)
        coding == GetOr(code, "coding", <<>>)
        text == GetOr(code, "text", "")
        quantity == GetOr(comp, "valueQuantity", EmptyDict)
    IN [name |-> IF text = "" /\ ~Empty(coding)
                 THEN GetOr(coding[1], "display", "") ELSE text,
        value |-> GetOr(quantity, "value", ""),
        unit |-> GetOr(quantity, "unit", "")]

\* comp_values: str(comp_value) of the components that pass "if comp_value".
RECURSIVE comp_values(_)
comp_values(component) ==
    IF component = <<>> THEN <<>>
    ELSE LET quantity == GetOr(component[1], "valueQuantity", EmptyDict)
         IN (IF HasTruthyValue(quantity) THEN <<ToString(quantity.value)>> ELSE <<>>)
            \o comp_values(Tail(component))

\* value, str(value), unit and components of a vital-signs Observation.
VitalValue(resource) ==
    LET quantity == GetOr(resource, "valueQuantity", EmptyDict)
        component == GetOr(resource, "component", <<>>)
    IN IF quantity # EmptyDict
       THEN [value |-> GetOr(quantity, "value", "N/A"),
             str |-> IF "value" \in DOMAIN quantity THEN ToString(quantity.value)
                     ELSE "N/A",
             unit |-> GetOr(quantity, "unit", ""), components |-> <<>>]
       ELSE IF ~Empty(component)
       THEN LET components == [c \in 1..Len(component) |-> Component(component[c])]
                joined == IF Empty(comp_values(component)) THEN "N/A"
                          ELSE Join("/", comp_values(component))
            IN [value |-> joined, str |-> joined, unit |-> components[1].unit,
                components |-> components]
       ELSE [value |-> "N/A", str |-> "N/A", unit |-> "", components |-> <<>>]

\* f"{value} {unit}".strip() if unit else str(value)
DisplayValue(str, unit) == IF unit # "" THEN str \o " " \o unit ELSE str

\* The record get_vitals appends for one Observation.
VitalRecord(resource) ==
    LET code == GetOr(resource, "code", EmptyDict)
        coded == VitalCoding(GetOr(code, "coding", <<>>),
                             <<GetOr(code, "text", "Unknown Vital"), "", "">>)
        v == VitalValue(resource)
    IN [id |-> GetOr(resource, "id", ""),
        name |-> coded[1],
        code |-> coded[2],
        loincCode |-> coded[3],
        value |-> DisplayValue(v.str, v.unit),
        rawValue |-> v.value,
        unit |-> v.unit,
        components |-> v.components,
        date |-> GetOr(resource, "effectiveDateTime", "Unknown date"),
        status |-> Title(GetOr(resource, "status", "unknown")),
        interpretation |-> Interpretation(resource, "", ""),
        performer |-> Performer(resource),
        bodySite |-> GetOr(GetOr(resource, "bodySite", EmptyDict), "text", ""),
        method |-> GetOr(GetOr(resource, "method", EmptyDict), "text", ""),
        category |-> get_category_text(GetOr(resource, "category", <<>>))]

\* value, str(value), unit and value_type of a laboratory Observation.
LabValue(resource) ==
    LET quantity == GetOr(resource, "valueQuantity", EmptyDict)
        concept == GetOr(resource, "valueCodeableConcept", EmptyDict)
    IN IF quantity # EmptyDict
       THEN [value |-> GetOr(quantity, "value", "N/A"),
             str |-> IF "value" \in DOMAIN quantity THEN ToString(quantity.value)
                     ELSE "N/A",
             unit |-> GetOr(quantity, "unit", ""), type |-> "quantity"]
       ELSE IF ~Falsy(Get(resource, "valueString"))
       THEN [value |-> resource.valueString, str |-> resource.valueString,
             unit |-> "", type |-> "string"]
       ELSE IF concept # EmptyDict
       THEN [value |-> GetOr(concept, "text", "N/A"),
             str |-> GetOr(concept, "text", "N/A"), unit |-> "", type |-> "coded"]
       ELSE IF "valueBoolean" \in DOMAIN resource
       THEN LET yes_no == IF resource.valueBoolean THEN "Yes" ELSE "No"
            IN [value |-> yes_no, str |-> yes_no, unit |-> "", type |-> "boolean"]
       ELSE [value |-> "N/A", str |-> "N/A", unit |-> "", type |-> ""]

\* ref_range, ref_low and ref_high of a laboratory Observation: "if low and
\* high", "elif low", "elif high" test the truth of the numbers, and a
\* non-empty text replaces the range built from them.
ReferenceRange(resource) ==
    LET ranges == GetOr(resource, "referenceRange", <<>>)
    IN IF Empty(ranges)
       THEN [ref_range |-> "N/A", ref_low |-> None, ref_high |-> None]
       ELSE LET range_obj == ranges[1]
                low == GetOr(range_obj, "low", EmptyDict)
                high == GetOr(range_obj, "high", EmptyDict)
                built == IF HasTruthyValue(low) /\ HasTruthyValue(high)
                         THEN ToString(low.value) \o " - " \o ToString(high.value)
                         ELSE IF HasTruthyValue(low)
                         THEN ">= " \o ToString(low.value)
                         ELSE IF HasTruthyValue(high)
                         THEN "<= " \o ToString(high.value)
                         ELSE "N/A"
            IN [ref_range |-> IF ~Falsy(Get(range_obj, "text"))
                              THEN range_obj.text ELSE built,
                ref_low |-> GetOr(low, "value", ""),
                ref_high |-> GetOr(high, "value", "")]

\* The record get_labs appends for one Observation.
LabRecord(resource) ==
    LET code == GetOr(resource, "code", EmptyDict)
        coding == GetOr(code, "coding", <<>>)
        text == GetOr(code, "text", "Unknown Test")
        v == LabValue(resource)
        range == ReferenceRange(resource)
        interps == GetOr(resource, "interpretation", <<>>)
        interp_coding == IF Empty(interps) THEN <<>>
                         ELSE GetOr(interps[1], "coding", <<>>)
        specimen == GetOr(resource, "specimen", EmptyDict)
    IN [id |-> GetOr(resource, "id", ""),
        name |-> IF ~Empty(coding) /\ text \in {"", "Unknown Test"}
                 THEN GetOr(coding[1], "display", text) ELSE text,
        code |-> IF ~Empty(coding) THEN GetOr(coding[1], "code", "") ELSE "",
        value |-> DisplayValue(v.str, v.unit),
        rawValue |-> v.value,
        unit |-> v.unit,
        valueType |-> v.type,
        referenceRange |-> range.ref_range,
        refLow |-> range.ref_low,
        refHigh |-> range.ref_high,
        status |-> Title(GetOr(resource, "status", "unknown")),
        date |-> GetOr(resource, "effectiveDateTime", "Unknown date"),
        interpretation |-> Interpretation(resource, "Normal", "Normal"),
        interpretationCode |->
            IF ~Empty(interps) /\ GetOr(interps[1], "text", "") = ""
               /\ ~Empty(interp_coding)
            THEN GetOr(interp_coding[1], "code", "") ELSE "",
        performer |-> Performer(resource),
        specimen |-> GetOr(specimen, "display", ""),
        notes |-> Texts(GetOr(resource, "note", <<>>)),
        category |-> get_category_text(GetOr(resource, "category", <<>>))]

\* f"{d.get('value', '')} {d.get('unit', '')}"
ValueUnit(d) == StrOf(d, "value") \o " " \o GetOr(d, "unit", "")

\* The loop over dosage["doseAndRate"]: the last doseQuantity found.
RECURSIVE DoseQuantity(_, _)
DoseQuantity(rates, acc) ==
    IF rates = <<>> THEN acc
    ELSE LET dq == GetOr(rates[1], "doseQuantity", EmptyDict)
         IN DoseQuantity(Tail(rates), IF dq # EmptyDict THEN ValueUnit(dq) ELSE acc)

\* dose_detail of one dosageInstruction.
DoseDetail(dosage) ==
    LET timing == GetOr(dosage, "timing", EmptyDict)
        timing_code == GetOr(timing, "code", EmptyDict)
        repeat == GetOr(timing, "repeat", EmptyDict)
    IN [text |-> GetOr(dosage, "text", ""),
        timing |-> IF timing_code # EmptyDict THEN GetOr(timing_code, "text", "")
                   ELSE IF repeat # EmptyDict
                   THEN StrOf(repeat, "frequency") \o "x per " \o StrOf(repeat, "period")
                        \o " " \o GetOr(repeat, "periodUnit", "")
                   ELSE "",
        route |-> GetOr(GetOr(dosage, "route", EmptyDict), "text", ""),
        method |-> "",
        doseQuantity |-> DoseQuantity(GetOr(dosage, "doseAndRate", <<>>), "")]

\* dosage_text: the text of the last dosageInstruction that has one.
RECURSIVE DosageText(_, _)
DosageText(dosages, acc) ==
    IF dosages = <<>> THEN acc
    ELSE DosageText(Tail(dosages), GetOr(dosages[1], "text", acc))

\* dispense_info: only the keys whose source field is present and true.
DispenseInfo(dr) ==
    LET quantity == GetOr(dr, "quantity", EmptyDict)
        esd == GetOr(dr, "expectedSupplyDuration", EmptyDict)
        keys == (IF GetOr(dr, "numberOfRepeatsAllowed", 0) # 0 THEN {"refills"} ELSE {})
                \cup (IF quantity # EmptyDict THEN {"quantity"} ELSE {})
                \cup (IF esd # EmptyDict THEN {"supplyDuration"} ELSE {})
    IN [k \in keys |->
           CASE k = "refills" -> dr.numberOfRepeatsAllowed
             [] k = "quantity" -> ValueUnit(quantity)
             [] k = "supplyDuration" -> ValueUnit(esd)]

\* The record get_medications appends for one MedicationRequest.
MedicationRecord(resource) ==
    LET concept == GetOr(resource, "medicationCodeableConcept", EmptyDict)
        reference == GetOr(resource, "medicationReference", EmptyDict)
        codings == GetOr(concept, "coding", <<>>)
        text == GetOr(concept, "text", "Unknown Medication")
        dosages == GetOr(resource, "dosageInstruction", <<>>)
    IN [id |-> GetOr(resource, "id", ""),
        name |-> IF concept # EmptyDict
                 THEN IF text = "Unknown Medication" /\ ~Empty(codings)
                      THEN GetOr(codings[1], "display", text) ELSE text
                 ELSE IF reference # EmptyDict
                 THEN GetOr(reference, "display", "Unknown Medication")
                 ELSE "Unknown Medication",
        dosage |-> DosageText(dosages, "No dosage information"),
        dosageDetails |-> [d \in 1..Len(dosages) |-> DoseDetail(dosages[d])],
        status |-> Title(GetOr(resource, "status", "unknown")),
        authoredOn |-> GetOr(resource, "authoredOn", "Unknown date"),
        prescriber |-> GetOr(GetOr(resource, "requester", EmptyDict), "display", "Unknown"),
        reason |-> Join(", ", Texts(GetOr(resource, "reasonCode", <<>>))),
        dispenseInfo |-> DispenseInfo(GetOr(resource, "dispenseRequest", EmptyDict)),
        intent |-> Title(GetOr(resource, "intent", "")),
        category |-> get_category_text(GetOr(resource, "category", <<>>))]

\* The record a list handler appends for one entry's resource.
Record(op, resource) ==
    CASE op = "get_medications" -> MedicationRecord(resource)
      [] op = "get_labs" -> LabRecord(resource)
      [] op = "get_vitals" -> VitalRecord(resource)

\* The dict a list handler returns for a Bundle: one record per entry.
ListResult(op, bundle, page, page_size) ==
    LET total == GetOr(bundle, "total", 0)
        entry == GetOr(bundle, "entry", <<>>)
        records == [e \in 1..Len(entry) |->
                       Record(op, GetOr(entry[e], "resource", EmptyDict))]
    IN
    Dict(ListKey(op), records,
         [total |-> total, page |-> page, page_size |-> page_size,
          total_pages |-> total_pages(total, page_size)])

\* A list handler from the FHIR server's answer to the return.
list_resume(task, response) ==
    /\ task \in Suspended
    /\ task.op \in ListOps
    /\ Resume(task)
    /\ UNCHANGED issued
    /\ IF response.raised
       THEN list_exception(task, response)
       ELSE IF response.status_code = 401
       THEN list_401(task, response)
       ELSE IF response.status_code # 200
       THEN list_not_200(task, response)
       ELSE /\ last' = Resumed(task, response, "return",
                           ListResult(task.op, response.json, task.paging[1], task.paging[2]))
            /\ UNCHANGED <<sessions, exchanged>>

Next ==
    \/ login
    \/ \E code \in Codes, state \in States, error \in Errors :
           callback(code, state, error)
    \/ \E task \in Suspended, token_response \in TokenResponses :
           callback_resume(task, token_response)
    \/ \E session_id \in SessionIds : get_patient(session_id)
    \/ \E task \in Suspended, response \in FhirResponses("get_patient") :
           get_patient_resume(task, response)
    \/ \E session_id \in SessionIds, paging \in Pagings :
           get_medications(session_id, paging[1], paging[2])
    \/ \E session_id \in SessionIds, paging \in Pagings :
           get_labs(session_id, paging[1], paging[2])
    \/ \E session_id \in SessionIds, paging \in Pagings :
           get_vitals(session_id, paging[1], paging[2])
    \/ \E task \in Suspended, response \in FhirResponses("get_medications") :
           list_resume(task, response)
    \/ \E session_id \in SessionIds : logout(session_id)

Spec == Init /\ [][Next]_vars

\* The authorization flow alone: the handlers that write the session store.
NextAuth ==
    \/ login
    \/ \E code \in Codes, state \in States, error \in Errors :
           callback(code, state, error)
    \/ \E task \in Suspended, token_response \in TokenResponses :
           callback_resume(task, token_response)
    \/ \E session_id \in SessionIds : logout(session_id)

SpecAuth == Init /\ [][NextAuth]_vars

\* The record builders alone: the state after one login and its successful
\* callback, and from there the resource handlers on the session, answered
\* with resources that carry data.
InitRecords ==
    LET state == Token(1)
        call == [code |-> "code1", state |-> state, error |-> None, replay |-> FALSE]
        token_json == [access_token |-> "tokA", patient |-> "patA",
                       expires_in |-> "3600", scope |-> "patient/*.read"]
    IN /\ sessions = Store(EmptyDict, state,
                           AuthenticatedSession(token_json, "tokA", "patA"))
       /\ issued = 1
       /\ tasks = EmptyBag
       /\ last = CallbackReturn(call, 1, "dashboard", state)
       /\ exchanged = {<<"code1", state>>}

Ok(json) == [raised |-> FALSE, status_code |-> 200, json |-> json]

NextRecords ==
    \/ \E session_id \in DOMAIN sessions : get_patient(session_id)
    \/ \E task \in Suspended, patient_data \in PatientResources :
           get_patient_resume(task, Ok(patient_data))
    \/ \E session_id \in DOMAIN sessions, paging \in Pagings :
           get_medications(session_id, paging[1], paging[2])
    \/ \E session_id \in DOMAIN sessions, paging \in Pagings :
           get_labs(session_id, paging[1], paging[2])
    \/ \E session_id \in DOMAIN sessions, paging \in Pagings :
           get_vitals(session_id, paging[1], paging[2])
    \/ \E task \in Suspended :
           \E bundle \in RecordBundles(task.op) : list_resume(task, Ok(bundle))

SpecRecords == InitRecords /\ [][NextRecords]_vars

\* The pagination metadata alone: the list handlers on the session of
\* InitRecords, over PagePagings, answered with Bundles of every total.
NextPages ==
    \/ \E session_id \in DOMAIN sessions, paging \in PagePagings :
           get_medications(session_id, paging[1], paging[2])
    \/ \E session_id \in DOMAIN sessions, paging \in PagePagings :
           get_labs(session_id, paging[1], paging[2])
    \/ \E session_id \in DOMAIN sessions, paging \in PagePagings :
           get_vitals(session_id, paging[1], paging[2])
    \/ \E task \in Suspended, bundle \in TotalBundles :
           list_resume(task, Ok(bundle))

SpecPages == InitRecords /\ [][NextPages]_vars

(***************************************************************************)
(* Properties                                                              *)
(***************************************************************************)

Unauthenticated401 == HTTPException(401, "Invalid or expired session")

\* The resource handlers suspended on their FHIR request: the requests in flight.
FhirRequests == {task \in Suspended : task.op \in ResourceOps}

\* C1: a resource handler called with a session id that is absent from the
\* store, or whose session is not authenticated, ends with the 401 "Invalid or
\* expired session" outcome and issues no request to the FHIR server: every
\* FHIR request in flight comes from a handler that found its session
\* authenticated.
C1_UnauthenticatedFailsBeforeRequest ==
    /\ (last.op \in ResourceOps /\ last.status # "authenticated")
       => /\ last.kind = "HTTPException"
          /\ last.result = Unauthenticated401
          /\ last.sent = 0
    /\ \A task \in FhirRequests : Get(task.session, "status") = "authenticated"

C1_Witness ==
    /\ last.op \in ListOps
    /\ last.status = "pending"
    /\ StatusOf(sessions, last.session_id) = "pending"
    /\ last.result = Unauthenticated401
    /\ tasks = EmptyBag

\* C2: in every reachable state, every session whose status is
\* "authenticated" has a non-empty access_token and a non-empty patient_id.
C2_AuthenticatedHasToken ==
    \A t \in DOMAIN sessions :
        Get(sessions[t], "status") = "authenticated"
        => /\ ~Falsy(Get(sessions[t], "access_token"))
           /\ ~Falsy(Get(sessions[t], "patient_id"))

C2_Witness ==
    /\ last.op \in ResourceOps
    /\ last.kind = "return"
    /\ StatusOf(sessions, last.session_id) = "authenticated"
    /\ ~Falsy(Get(sessions[last.session_id], "access_token"))

\* The session check of /callback, for a call that carries a code.
UnknownStateYieldsInvalidState(code, state, error) ==
    callback(code, state, error)
    => /\ last'.op = "callback"
       /\ last'.state = state
       /\ last'.kind = "invalid_state"
       /\ tasks' = tasks
       /\ sessions' = sessions

\* C3 as claimed: /callback called with a non-empty code and a state that is
\* not a key of the session store yields invalid_state, sends no token
\* exchange request and leaves the session store unchanged.
C3_UnknownStateAlwaysInvalidState ==
    [][\A code \in Codes, state \in States, error \in Errors :
          (~Falsy(code) /\ state \notin DOMAIN sessions)
          => UnknownStateYieldsInvalidState(code, state, error)]_vars

\* C3 as amended: /callback called without an error parameter, with a
\* non-empty code and a non-empty state that is not a key of the session store
\* yields invalid_state, sends no token exchange request and leaves the
\* session store unchanged.
C3_UnknownStateInvalidState ==
    [][\A code \in Codes, state \in States, error \in Errors :
          (Falsy(error) /\ ~Falsy(code) /\ ~Falsy(state)
             /\ state \notin DOMAIN sessions)
          => UnknownStateYieldsInvalidState(code, state, error)]_vars

C3_Witness ==
    /\ last.op = "callback"
    /\ last.kind = "invalid_state"
    /\ last.state = "bogus"
    /\ last.sent = 0
    /\ \E t \in DOMAIN sessions : StatusOf(sessions, t) = "authenticated"

\* The entry of a token is the pending session /login stored, with the
\* code_verifier it was given.
PendingWith(s, t, code_verifier) ==
    /\ t \in DOMAIN s
    /\ s[t] = [status |-> "pending", code_verifier |-> code_verifier]

\* C4: when the token endpoint answers a /callback call with a status other
\* than 200, the call ends with token_error carrying that status, sends no
\* further request and leaves the session store as it is: the session, pending
\* when the answer arrives, is still present and pending with its original
\* code_verifier.
C4_TokenErrorLeavesPending ==
    [][\A task \in Suspended, token_response \in TokenResponses :
          (/\ task.op = "callback"
           /\ ~token_response.raised
           /\ token_response.status_code # 200
           /\ callback_resume(task, token_response))
          => /\ last'.op = "callback"
             /\ last'.state = task.call.state
             /\ last'.kind = "token_error"
             /\ last'.details = token_response.status_code
             /\ tasks' = tasks (-) SetToBag({task})
             /\ sessions' = sessions
             /\ PendingWith(sessions, task.call.state, task.code_verifier)
                => PendingWith(sessions', task.call.state, task.code_verifier)]_vars

C4_Witness ==
    /\ last.op = "callback"
    /\ last.kind = "token_error"
    /\ last.details = 400
    /\ last.sent = 1
    /\ \E i \in 1..MaxTokens :
          /\ last.state = Token(i)
          /\ PendingWith(sessions, Token(i), generate_code_verifier(i))

\* A 200 token response whose access_token or patient is missing or empty.
IncompleteBody(token_response) ==
    /\ ~token_response.raised
    /\ token_response.status_code = 200
    /\ \/ Falsy(Get(token_response.json, "access_token"))
       \/ Falsy(Get(token_response.json, "patient"))

\* C5: when the token endpoint answers a /callback call with 200 and a body
\* in which access_token or patient is missing or empty, the call ends with
\* missing_token_data and does not authenticate the session: the store is left
\* as it is, and a session pending when the answer arrives stays pending.
C5_IncompleteTokenNotAuthenticated ==
    [][\A task \in Suspended, token_response \in TokenResponses :
          (/\ task.op = "callback"
           /\ IncompleteBody(token_response)
           /\ callback_resume(task, token_response))
          => /\ last'.op = "callback"
             /\ last'.state = task.call.state
             /\ last'.kind = "missing_token_data"
             /\ sessions' = sessions
             /\ StatusOf(sessions, task.call.state) = "pending"
                => StatusOf(sessions', task.call.state) = "pending"]_vars

C5_Witness ==
    /\ last.op = "callback"
    /\ last.kind = "missing_token_data"
    /\ last.sent = 1
    /\ StatusOf(sessions, last.state) = "pending"

\* C6 as claimed: /callback writes the authenticated record for a state token
\* only if the token is in the store at the moment of the write, so a session
\* removed by logout during the token exchange is never recreated.
C6_AuthenticatedWrittenOnlyIfPresent ==
    [][\A t \in Tokens :
          t \notin DOMAIN sessions
          => StatusOf(sessions', t) # "authenticated"]_vars

\* A /callback call for the token has succeeded before.
WasAuthenticated(t) == \E code \in Codes : <<code, t>> \in exchanged

\* A /callback call for the token succeeds in this step: it writes the
\* authenticated record.
WritesAuthenticated(t) ==
    \E task \in Suspended, token_response \in TokenResponses :
        /\ task.op = "callback"
        /\ task.call.state = t
        /\ callback_resume(task, token_response)
        /\ last'.kind = "dashboard"

\* C7 as claimed: the entry of a token is written to "authenticated" exactly
\* once: after a /callback call for the token has succeeded, no call writes it
\* to "authenticated" again and it never returns to "pending".
C7_AuthenticatedExactlyOnce ==
    [][\A t \in Tokens :
          WasAuthenticated(t)
          => /\ ~WritesAuthenticated(t)
             /\ StatusOf(sessions', t) # "pending"]_vars

\* C8 as claimed: a /callback call that repeats the code and state of a call
\* that succeeded fails with the provider's rejection: the exchange request is
\* sent and its non-200 answer gives the outcome.
C8_ReplayRejectedByProvider ==
    (last.op = "callback" /\ last.replay /\ Falsy(last.error))
    => /\ last.sent = 1
       /\ last.kind = "token_error"

\* C8 as amended: a /callback call that repeats the code and state of a call
\* that succeeded fails on a local check of the session store, missing_verifier
\* (the authenticated record holds no code_verifier) or invalid_state (the
\* session was logged out), and no exchange request is sent.
C8_ReplayRejectedLocally ==
    (last.op = "callback" /\ last.replay /\ Falsy(last.error))
    => /\ last.sent = 0
       /\ last.kind \in {"missing_verifier", "invalid_state"}

C8_Witness ==
    /\ last.op = "callback"
    /\ last.replay
    /\ last.kind = "missing_verifier"
    /\ StatusOf(sessions, last.state) = "authenticated"

\* The number of FHIR requests in flight in a bag of suspended handlers.
FhirCount(bag) ==
    LET S == {task \in BagToSet(bag) : task.op \in ResourceOps}
    IN BagCardinality([task \in S |-> bag[task]])

\* A step of a resource handler: it suspends on its FHIR request or is resumed
\* by the answer, or it returns without a request.
ResourceStep ==
    \/ FhirCount(tasks') # FhirCount(tasks)
    \/ (tasks' = tasks /\ last'.op \in ResourceOps /\ last'.sent = 0)

\* The outcome of a resource handler whose request was answered 401.
TokenExpired(outcome) ==
    IF outcome.op = "get_patient"
    THEN /\ outcome.kind = "HTTPException"
         /\ outcome.result = HTTPException(401, "Access token expired or invalid")
    ELSE /\ outcome.kind = "return"
         /\ outcome.result.error = "Session expired"

\* C9: no step of a resource handler adds, removes or modifies a session store
\* entry, whatever the FHIR server answers; a handler that returns issues no
\* further request; a 401 answer gives the token-expired outcome, and a
\* session authenticated when the answer arrives is still present and
\* authenticated afterwards.
C9_ResourceHandlersLeaveStore ==
    [][/\ ResourceStep => sessions' = sessions
       /\ FhirCount(tasks') < FhirCount(tasks) => tasks' \sqsubseteq tasks
       /\ (/\ FhirCount(tasks') < FhirCount(tasks)
           /\ ~last'.response.raised
           /\ last'.response.status_code = 401)
          => /\ TokenExpired(last')
             /\ StatusOf(sessions, last'.session_id) = "authenticated"
                => StatusOf(sessions', last'.session_id) = "authenticated"]_vars

C9_Witness ==
    /\ last.op = "get_patient"
    /\ last.sent = 1
    /\ ~last.response.raised
    /\ last.response.status_code = 401
    /\ TokenExpired(last)
    /\ StatusOf(sessions, last.session_id) = "authenticated"

\* The FHIR request of a resource handler failed: a raised exception, a 401 or
\* another status than 200.
FetchFailed(outcome) ==
    /\ outcome.op \in ResourceOps
    /\ outcome.sent = 1
    /\ (outcome.response.raised \/ outcome.response.status_code # 200)

\* C10 as claimed: for an authenticated session, every failure of the fetch
\* in a list handler gives a normal result with an empty record list, total 0,
\* the requested page and page_size and a non-empty error field, and in
\* get_patient it gives a failure outcome, never a patient record.
C10_FetchFailureOutcome ==
    FetchFailed(last)
    => IF last.op \in ListOps
       THEN /\ last.kind = "return"
            /\ last.result[ListKey(last.op)] = <<>>
            /\ last.result.total = 0
            /\ last.result.page = last.page
            /\ last.result.page_size = last.page_size
            /\ "error" \in DOMAIN last.result
            /\ ~Falsy(last.result.error)
       ELSE last.kind = "HTTPException"


\* A resource handler call that the FHIR server answered with 200.
Answered200(outcome) ==
    /\ outcome.op \in ResourceOps
    /\ outcome.sent = 1
    /\ ~outcome.response.raised
    /\ outcome.response.status_code = 200

PatientKeys ==
    {"id", "name", "gender", "birthDate", "identifier", "address", "phone",
     "email", "maritalStatus", "language"}

\* C11: every normalizer is total: whatever fields of the resource are absent
\* and whatever arrays are empty, a handler answered with 200 returns a fully
\* formed result (get_patient a record with all ten fields, a list handler
\* its list without an error field) and never raises.
C11_NormalizersTotal ==
    Answered200(last) =>
        /\ last.kind = "return"
        /\ last.op = "get_patient" => DOMAIN last.result = PatientKeys
        /\ last.op \in ListOps => "error" \notin DOMAIN last.result

\* C12: a successful list response carries total_pages = ceil(total /
\* page_size) when total > 0, that is the least number of pages of page_size
\* records that hold total records, and total_pages = 1 when total = 0.
C12_TotalPagesIsCeiling ==
    (Answered200(last) /\ last.op \in ListOps) =>
        LET total == last.result.total
            page_size == last.result.page_size
            pages == last.result.total_pages
        IN /\ page_size \in PageSizeMin..PageSizeMax
           /\ total >= 0
           /\ IF total > 0
              THEN (pages - 1) * page_size < total /\ total <= pages * page_size
              ELSE pages = 1

\* A total that is not a multiple of page_size and needs several pages.
C12_Witness ==
    /\ Answered200(last)
    /\ last.op \in ListOps
    /\ last.result.total % last.result.page_size # 0
    /\ last.result.total_pages > 2

\* The records of a list response beside the resources they were built from.
Entries(outcome) == GetOr(outcome.response.json, "entry", <<>>)
ResourceOf(outcome, e) == GetOr(Entries(outcome)[e], "resource", EmptyDict)
RecordOf(outcome, e) == outcome.result[ListKey(outcome.op)][e]

\* The values of the components that have one, as text.
RECURSIVE ComponentValues(_)
ComponentValues(component) ==
    IF component = <<>> THEN <<>>
    ELSE LET quantity == GetOr(component[1], "valueQuantity", EmptyDict)
         IN (IF "value" \in DOMAIN quantity THEN <<ToString(quantity.value)>> ELSE <<>>)
            \o ComponentValues(Tail(component))

\* A vital-signs Observation without valueQuantity whose component array is
\* not empty and gives at least one value.
HasComponentValues(resource) ==
    /\ "valueQuantity" \notin DOMAIN resource
    /\ ComponentValues(GetOr(resource, "component", <<>>)) # <<>>

\* C13: for a vital-signs Observation that has no valueQuantity and a
\* non-empty component array, the record's value is the component values
\* joined by "/" (the record gives it as rawValue, and as value with the unit
\* after it: either may be the join), its unit is the first component's
\* unit, and components has one entry per input component.
C13_ComponentValuesJoined ==
    (Answered200(last) /\ last.op = "get_vitals") =>
        \A e \in 1..Len(Entries(last)) :
            LET resource == ResourceOf(last, e)
                component == GetOr(resource, "component", <<>>)
                record == RecordOf(last, e)
                joined == Join("/", ComponentValues(component))
            IN HasComponentValues(resource) =>
                  /\ record.value = joined \/ record.rawValue = joined
                  /\ record.unit = GetOr(GetOr(component[1], "valueQuantity", EmptyDict),
                                         "unit", "")
                  /\ Len(record.components) = Len(component)

\* The identifier values the stated precedence allows for a Patient: those of
\* the MR/MRN identifiers if there is one, else those of the Epic identifiers
\* if there is one, else the first identifier's, else the resource's id.
ValueOf(ident, default) == GetOr(ident, "value", default)
IdentifiersByPrecedence(patient_data) ==
    LET identifiers == GetOr(patient_data, "identifier", <<>>)
        own_id == GetOr(patient_data, "id", "N/A")
        mr == {i \in 1..Len(identifiers) : IsMR(identifiers[i])}
        epic == {i \in 1..Len(identifiers) :
                    ContainsEpic(GetOr(identifiers[i], "system", ""))}
    IN IF mr # {} THEN {ValueOf(identifiers[i], "N/A") : i \in mr}
       ELSE IF epic # {} THEN {ValueOf(identifiers[i], "N/A") : i \in epic}
       ELSE IF identifiers # <<>> THEN {ValueOf(identifiers[1], own_id)}
       ELSE {own_id}

\* C14: the patient identifier is chosen by strict precedence over the whole
\* identifier list, whatever its order: an MR/MRN identifier's value if there
\* is one, otherwise an Epic identifier's, otherwise the first identifier's,
\* otherwise the resource's id; an Epic identifier listed before an MR one
\* does not win.
C14_IdentifierByPrecedence ==
    (Answered200(last) /\ last.op = "get_patient" /\ last.kind = "return") =>
        last.result.identifier \in IdentifiersByPrecedence(last.response.json)

\* The range the claim states for the first referenceRange entry: a bound is
\* present when the entry gives its value, 0 included.
StatedRange(range_obj) ==
    LET low == GetOr(range_obj, "low", EmptyDict)
        high == GetOr(range_obj, "high", EmptyDict)
        has_low == "value" \in DOMAIN low
        has_high == "value" \in DOMAIN high
    IN IF "text" \in DOMAIN range_obj /\ range_obj.text # "" THEN range_obj.text
       ELSE IF has_low /\ has_high
       THEN ToString(low.value) \o " - " \o ToString(high.value)
       ELSE IF has_low THEN ">= " \o ToString(low.value)
       ELSE IF has_high THEN "<= " \o ToString(high.value)
       ELSE "N/A"

\* C15: for a lab Observation with a referenceRange entry, referenceRange is
\* the entry's text when present; otherwise "{low} - {high}" when both
\* low.value and high.value are present, ">= {low}" when only low is,
\* "<= {high}" when only high is, and "N/A" when neither is; the value 0
\* counts as present (low 0 and high 5 give "0 - 5").
C15_ReferenceRangeText ==
    (Answered200(last) /\ last.op = "get_labs") =>
        \A e \in 1..Len(Entries(last)) :
            LET ranges == GetOr(ResourceOf(last, e), "referenceRange", <<>>)
            IN ranges # <<>> =>
                   RecordOf(last, e).referenceRange = StatedRange(ranges[1])

\* The token a handler call that returned was invoked for.
TokenOf(outcome) ==
    CASE outcome.op \in {"login", "callback"} -> outcome.state
      [] outcome.op = "logout" -> outcome.session_id
      [] OTHER -> None

\* The step adds, removes or changes the store entry of key t.
EntryChanged(t) ==
    \/ (t \in DOMAIN sessions) # (t \in DOMAIN sessions')
    \/ t \in DOMAIN sessions /\ t \in DOMAIN sessions' /\ sessions[t] # sessions'[t]

\* C16: session isolation: a step of login, callback (on success or any
\* failure) or logout adds, removes or changes no store entry but that of the
\* token the handler was invoked for, under any interleaving.
C16_SessionIsolation ==
    [][\A t \in DOMAIN sessions \cup DOMAIN sessions' :
           EntryChanged(t) => t = TokenOf(last')]_vars

\* A callback for the second token has succeeded while both tokens have an
\* entry, and the first token's callback is still suspended.
C16_Witness ==
    /\ last.op = "callback" /\ last.kind = "dashboard" /\ last.state = Token(2)
    /\ StatusOf(sessions, Token(1)) = "pending"
    /\ \E task \in Suspended : task.op = "callback" /\ task.call.state = Token(1)

\* The credentials an outbound FHIR request carries: the Authorization scheme
\* and token of its headers and the patient of its URL or parameters.
RequestCredentials(task) ==
    [token_type |-> task.headers.Authorization[1],
     access_token |-> task.headers.Authorization[2],
     patient_id |-> IF task.op = "get_patient" THEN task.url[2] ELSE task.params.patient]

\* The credentials of one successful token response.
ResponseCredentials(token_json) ==
    [token_type |-> GetOr(token_json, "token_type", "Bearer"),
     access_token |-> Get(token_json, "access_token"),
     patient_id |-> Get(token_json, "patient")]
SuccessfulTokenJsons ==
    {j \in TokenJsons : ~IncompleteTokenResponse(Get(j, "patient"), Get(j, "access_token"))}

\* The credentials of a store entry.
EntryCredentials(session) ==
    [token_type |-> Get(session, "token_type"),
     access_token |-> Get(session, "access_token"),
     patient_id |-> Get(session, "patient_id")]

\* The step issues the request: its coroutine is suspended by it.
Issued(task) == CopiesIn(task, tasks') > CopiesIn(task, tasks)

\* C17: every outbound FHIR request carries an access_token, token_type and
\* patient_id that all come from one successful token response, the one
\* stored under the session's token when the request is issued; this stays so
\* while the fetch is suspended and callbacks or logouts for the same token
\* change the store.
C17_RequestCredentialsFromOneResponse ==
    /\ [](\A task \in FhirRequests :
             \E j \in SuccessfulTokenJsons :
                 RequestCredentials(task) = ResponseCredentials(j))
    /\ [][\A task \in BagToSet(tasks') :
             (task.op \in ResourceOps /\ Issued(task)) =>
                 /\ task.session_id \in DOMAIN sessions
                 /\ RequestCredentials(task) = EntryCredentials(sessions[task.session_id])
                 /\ \E j \in SuccessfulTokenJsons :
                        EntryCredentials(sessions[task.session_id]) = ResponseCredentials(j)]_vars

\* A fetch is suspended on its request while a second callback has replaced
\* the entry of its token by another token response's.
C17_Witness ==
    \E task \in FhirRequests :
        /\ task.session_id \in DOMAIN sessions
        /\ EntryCredentials(sessions[task.session_id]) # RequestCredentials(task)
====
